---- MODULE Spec2Model ----
\* Sidecar supervisor of tauri-agent-demo (src-tauri/src/lib.rs): locating the
\* backend executable, launching it at startup, tracking the child handle in
\* managed state, and killing it on the application exit events.
EXTENDS Integers, Sequences, FiniteSets, TLC

VARIABLES
    env,          \* what the platform answers during startup (environment, dirs, build)
    fs,           \* the paths that exist on the filesystem
    spc,          \* position of the setup closure: "start", "spawned", "done"
    outcome,      \* None, or Some(what spawn_backend returned, with its trace)
    setupRet,     \* what the setup closure returned: "none", "Ok", "Err"
    registry,     \* managed BackendChild state: None, or Some([slot |-> Option<Child>])
    held,         \* the child the exit handler holds between guard.take() and kill()
    host,         \* "Running", "ExitRequested", "Terminating", "Terminated", "Aborted"
    exitPending,  \* exit(0) was called and its ExitRequested event is not delivered yet
    kills,        \* the kill() calls issued so far, in order: [child, result, on]
    takes,        \* what the guard.take() calls returned so far, in order
    closes,       \* summary of the close requests handled so far
    delivered,    \* summary of the run events delivered so far
    log           \* the lines written with eprintln!, in order

vars == <<env, fs, spc, outcome, setupRet, registry, held, host, exitPending,
          kills, takes, closes, delivered, log>>

\* ------------------------------------------------------------------ bounds

\* Number of run events the event loop delivers in one run.
MaxEvents == 3
\* Number of window close requests in one run.
MaxCloses == 2

\* ------------------------------------------------------------------ text

\* Text is a sequence of tokens (words, separators, punctuation); a path is text
\* whose components are separated by the token "/".
\* Option<T>: None is the empty sequence, Some(x) the sequence holding x.
None == <<>>
Some(x) == <<x>>
IsSome(o) == o # None
Unwrap(o) == o[1]

RECURSIVE Spaced(_)
\* The words of a message with a single space between them.
Spaced(ws) ==
    IF Len(ws) <= 1 THEN ws
    ELSE <<ws[1], " ">> \o Spaced(Tail(ws))

\* str::contains: the needle occurs as a contiguous piece of the text.
Contains(text, needle) ==
    \E i \in 0..(Len(text) - Len(needle)) :
        \A j \in 1..Len(needle) : text[i + j] = needle[j]

\* The pattern the setup closure looks for in an error message.
ExternalPattern == Spaced(<<"External", "backend", "enabled">>)

MsgExternal ==
    ExternalPattern \o <<";", " ">> \o Spaced(<<"skipping", "sidecar", "spawn">>) \o <<".">>
MsgResourceDir ==
    Spaced(<<"Failed", "to", "resolve", "resource", "directory">>) \o <<".">>
MsgAppDataDir ==
    Spaced(<<"Failed", "to", "resolve", "app", "data", "directory">>) \o <<".">>
MsgCreateDir(cause) ==
    Spaced(<<"Failed", "to", "create", "app", "data", "directory">>) \o <<":", " ">> \o cause
MsgNotFound(candidate) ==
    Spaced(<<"Backend", "sidecar", "not", "found", "at">>) \o <<" ">> \o candidate \o <<".">>
MsgSpawn(cause) ==
    Spaced(<<"Failed", "to", "spawn", "backend", "sidecar">>) \o <<":", " ">> \o cause
LogExternal == <<"[Backend]", " ">> \o MsgExternal
LogSpawning == <<"[Backend]", " ">> \o Spaced(<<"Spawning", "sidecar", "backend">>) \o <<".">>

\* ------------------------------------------------------------------ paths

\* PathBuf::join with a relative name.
Join(p, name) ==
    IF p # <<>> /\ p[Len(p)] = "/" THEN Append(p, name) ELSE p \o <<"/", name>>

\* Index of the last separator of a path.
LastSep(p) == CHOOSE i \in 1..Len(p) : p[i] = "/" /\ \A j \in (i + 1)..Len(p) : p[j] # "/"

\* Path::parent: none for the root, otherwise the path without its last component.
Parent(p) ==
    IF p = <<"/">> \/ ~(\E i \in 1..Len(p) : p[i] = "/") THEN None
    ELSE IF LastSep(p) = 1 THEN Some(<<"/">>)
    ELSE Some(SubSeq(p, 1, LastSep(p) - 1))

ExeName(windows) == IF windows THEN "tauri-agent-backend.exe" ELSE "tauri-agent-backend"

Ok(v) == [ok |-> TRUE, val |-> v]
Err(e) == [ok |-> FALSE, err |-> e]


\* ------------------------------------------------------------------ platform

Upper == <<"A","B","C","D","E","F","G","H","I","J","K","L","M",
           "N","O","P","Q","R","S","T","U","V","W","X","Y","Z">>
Lower == <<"a","b","c","d","e","f","g","h","i","j","k","l","m",
           "n","o","p","q","r","s","t","u","v","w","x","y","z">>

\* u8::to_ascii_lowercase on one character.
ToAsciiLower(c) ==
    IF \E i \in 1..26 : Upper[i] = c THEN Lower[CHOOSE i \in 1..26 : Upper[i] = c] ELSE c

\* str::eq_ignore_ascii_case on two character sequences.
EqIgnoreAsciiCase(a, b) ==
    /\ Len(a) = Len(b)
    /\ \A i \in 1..Len(a) : ToAsciiLower(a[i]) = ToAsciiLower(b[i])

\* Values of TAURI_AGENT_EXTERNAL_BACKEND, as character sequences.
ExternalValues ==
    { None, Some(<<"0">>), Some(<<"1">>), Some(<<"t","r","u","e">>),
      Some(<<"T","R","U","E">>), Some(<<"T","r","u","E">>) }

ResourceDirs ==
    { None,
      Some(<<"/", "opt", "/", "agent">>),
      Some(<<"/", "Apps", "/">> \o ExternalPattern) }
AppDataDirs == { None, Some(<<"/", "home", "/", "data">>) }
CurrentExes ==
    { None, Some(<<"/">>), Some(<<"/", "usr", "/", "bin", "/", "tauri-agent-demo">>) }
\* Display of the io::Error a failed system call carries.
OsCauses ==
    { Spaced(<<"Permission", "denied", "(os", "error", "13)">>),
      Spaced(<<"Read-only", "file", "system", "(os", "error", "30)">>) }
SpawnCauses == { Spaced(<<"Exec", "format", "error", "(os", "error", "8)">>) }
DbOverrides == { None, Some(<<"/", "tmp", "/", "custom.db">>) }

\* env!("CARGO_MANIFEST_DIR") of the build.
ManifestDir == <<"/", "src", "/", "src-tauri">>
DevDbCandidate == Join(Join(Join(ManifestDir, ".."), "python-backend"), "chat_app.db")

\* What the platform can answer during one startup. A failing system call
\* answers Some(cause), a succeeding one None.
Answers ==
    [ external     : ExternalValues,
      isDev        : BOOLEAN,
      windows      : BOOLEAN,
      resourceDir  : ResourceDirs,
      appDataDir   : AppDataDirs,
      createDir    : {None} \cup {Some(c) : c \in OsCauses},
      candidate    : BOOLEAN,      \* a file exists at resource_dir/exe_name
      currentExe   : CurrentExes,
      fallback     : BOOLEAN,      \* a file exists next to the host executable
      devDb        : BOOLEAN,      \* the project-relative database file exists
      dbOverride   : DbOverrides,
      spawn        : {None} \cup {Some(c) : c \in SpawnCauses} ]

\* The fallback location next to the host's own executable, if it can be computed:
\* current_exe().ok().and_then(|path| path.parent().map(|parent| parent.join(exe_name))).
FallbackOf(e) ==
    IF e.currentExe = None THEN None
    ELSE IF Parent(Unwrap(e.currentExe)) = None THEN None
    ELSE Some(Join(Unwrap(Parent(Unwrap(e.currentExe))), ExeName(e.windows)))

\* The files present before startup.
InitialFiles(e) ==
    (IF e.candidate /\ IsSome(e.resourceDir)
        THEN {Join(Unwrap(e.resourceDir), ExeName(e.windows))} ELSE {})
    \cup (IF e.fallback /\ IsSome(FallbackOf(e)) THEN {Unwrap(FallbackOf(e))} ELSE {})
    \cup (IF e.devDb THEN {DevDbCandidate} ELSE {})

Op(name, path) == [op |-> name, path |-> path]
NoPath == <<>>

\* ------------------------------------------------------------------ launcher

\* An existence check that answers yes for every path.
ExistsAlways(files, p) == TRUE

\* Path::exists on the filesystem `files`.
Exists(files, p) == p \in files

\* A not-found error that names the fallback location when there is one.
NotFoundNamesFallback(candidate, fallback) ==
    IF IsSome(fallback) THEN Err(MsgNotFound(Unwrap(fallback))) ELSE Err(MsgNotFound(candidate))

\* The error resolve_backend_path ends with when neither location holds the file.
NotFound(candidate, fallback) == Err(MsgNotFound(candidate))

\* A resolver that looks next to the host executable before the resource directory.
ResolveFallbackFirst(e, files) ==
    IF e.resourceDir = None
    THEN [res |-> Err(MsgResourceDir), ops |-> <<Op("resource_dir", NoPath)>>]
    ELSE
      LET candidate == Join(Unwrap(e.resourceDir), ExeName(e.windows))
          fallback == FallbackOf(e)
          first == <<Op("resource_dir", NoPath), Op("current_exe", NoPath)>>
          second == IF IsSome(fallback)
                    THEN first \o <<Op("exists", Unwrap(fallback))>> ELSE first
      IN IF IsSome(fallback) /\ Unwrap(fallback) \in files
         THEN [res |-> Ok(Unwrap(fallback)), ops |-> second]
         ELSE IF candidate \in files
              THEN [res |-> Ok(candidate), ops |-> second \o <<Op("exists", candidate)>>]
              ELSE [res |-> Err(MsgNotFound(candidate)),
                    ops |-> second \o <<Op("exists", candidate)>>]

\* resolve_backend_path: the result and the platform calls made, in order.
ResolveBackendPath(e, files) ==
    IF e.resourceDir = None
    THEN [res |-> Err(MsgResourceDir), ops |-> <<Op("resource_dir", NoPath)>>]
    ELSE
      LET candidate == Join(Unwrap(e.resourceDir), ExeName(e.windows))
          first == <<Op("resource_dir", NoPath), Op("exists", candidate)>>
      IN IF Exists(files, candidate)
         THEN [res |-> Ok(candidate), ops |-> first]
         ELSE
           LET fallback == FallbackOf(e)
               second == first \o <<Op("current_exe", NoPath)>>
           IN IF IsSome(fallback)
              THEN IF Exists(files, Unwrap(fallback))
                   THEN [res |-> Ok(Unwrap(fallback)),
                         ops |-> second \o <<Op("exists", Unwrap(fallback))>>]
                   ELSE [res |-> NotFound(candidate, fallback),
                         ops |-> second \o <<Op("exists", Unwrap(fallback))>>]
              ELSE [res |-> NotFound(candidate, fallback), ops |-> second]

\* An override test that compares the value with "true" exactly.
ExternalBackendCaseSensitive(value) ==
    IF value = None THEN FALSE
    ELSE Unwrap(value) = <<"1">> \/ Unwrap(value) = <<"t","r","u","e">>

\* The override test of spawn_backend on TAURI_AGENT_EXTERNAL_BACKEND:
\* var(..).map(|value| value == "1" || value.eq_ignore_ascii_case("true")).unwrap_or(false).
ExternalBackendEnabled(value) ==
    IF value = None THEN FALSE
    ELSE Unwrap(value) = <<"1">> \/ EqIgnoreAsciiCase(Unwrap(value), <<"t","r","u","e">>)

\* The directory and its ancestors, which create_dir_all leaves existing.
Ancestors(p) ==
    { SubSeq(p, 1, i) : i \in { k \in 1..Len(p) : k = Len(p) \/ (k > 1 /\ p[k + 1] = "/") } }

\* A create_dir_all whose failure goes unnoticed.
CreateDirAllUnchecked(e, files, dir) ==
    [err |-> None, files |-> IF e.createDir = None THEN files \cup Ancestors(dir) ELSE files]

\* A create_dir_all that reports success without creating anything.
CreateDirAllNoop(e, files, dir) == [err |-> e.createDir, files |-> files]

\* std::fs::create_dir_all(&app_data_dir): the error, if any, and the filesystem after.
CreateDirAll(e, files, dir) ==
    [err |-> e.createDir,
     files |-> IF e.createDir = None THEN files \cup Ancestors(dir) ELSE files]

\* A database path that prefers the project-relative file to the override.
DbPathDevFirst(e, files, appDataDir) ==
    IF e.isDev /\ Exists(files, DevDbCandidate)
    THEN [path |-> DevDbCandidate,
          ops |-> <<Op("env_db_path", NoPath), Op("exists", DevDbCandidate)>>]
    ELSE IF IsSome(e.dbOverride)
         THEN [path |-> Unwrap(e.dbOverride), ops |-> <<Op("env_db_path", NoPath)>>]
         ELSE [path |-> Join(appDataDir, "chat_app.db"), ops |-> <<Op("env_db_path", NoPath)>>]

\* The database path spawn_backend hands to the child, with the calls made.
DbPath(e, files, appDataDir) ==
    IF IsSome(e.dbOverride)
    THEN [path |-> Unwrap(e.dbOverride), ops |-> <<Op("env_db_path", NoPath)>>]
    ELSE IF e.isDev
         THEN IF Exists(files, DevDbCandidate)
              THEN [path |-> DevDbCandidate,
                    ops |-> <<Op("env_db_path", NoPath), Op("exists", DevDbCandidate)>>]
              ELSE [path |-> Join(appDataDir, "chat_app.db"),
                    ops |-> <<Op("env_db_path", NoPath), Op("exists", DevDbCandidate)>>]
         ELSE [path |-> Join(appDataDir, "chat_app.db"), ops |-> <<Op("env_db_path", NoPath)>>]

\* The Command spawn_backend builds for the resolved executable.
BuildCommand(e, program, appDataDir, dbPath) ==
    [ program |-> program,
      args    |-> <<"--host", "127.0.0.1", "--port", "8000">>,
      envs    |-> [ TAURI_AGENT_DATA_DIR |-> appDataDir,
                    TAURI_AGENT_DB_PATH  |-> dbPath,
                    APP_CONFIG_PATH      |-> Join(appDataDir, "app_config.json"),
                    TOOLS_CONFIG_PATH    |-> Join(appDataDir, "tools_config.json") ],
      cwd     |-> appDataDir,
      stdio   |-> IF e.isDev THEN "inherit" ELSE "null" ]

\* spawn_backend: its result, the calls it made in order, the lines it logged and
\* the filesystem it leaves.
SpawnBackend(e, files) ==
    LET start == <<Op("env_external", NoPath)>> IN
    IF ExternalBackendEnabled(e.external)
    THEN [res |-> Err(MsgExternal), ops |-> start, log |-> <<LogExternal>>, files |-> files]
    ELSE IF e.appDataDir = None
    THEN [res |-> Err(MsgAppDataDir), ops |-> start \o <<Op("app_data_dir", NoPath)>>,
          log |-> <<LogSpawning>>, files |-> files]
    ELSE
      LET dir == Unwrap(e.appDataDir)
          made == start \o <<Op("app_data_dir", NoPath), Op("create_dir_all", dir)>>
          created == CreateDirAll(e, files, dir)
      IN IF IsSome(created.err)
         THEN [res |-> Err(MsgCreateDir(Unwrap(created.err))), ops |-> made,
               log |-> <<LogSpawning>>, files |-> created.files]
         ELSE
           LET files1 == created.files
               db == DbPath(e, files1, dir)
               resolved == ResolveBackendPath(e, files1)
               before == made \o db.ops \o resolved.ops
           IN IF ~resolved.res.ok
              THEN [res |-> Err(resolved.res.err), ops |-> before,
                    log |-> <<LogSpawning>>, files |-> files1]
              ELSE
                LET command == BuildCommand(e, resolved.res.val, dir, db.path)
                    after == before \o <<Op("spawn", command.program)>>
                IN IF IsSome(e.spawn)
                   THEN [res |-> Err(MsgSpawn(Unwrap(e.spawn))), ops |-> after,
                         log |-> <<LogSpawning>>, files |-> files1]
                   ELSE [res |-> Ok([command |-> command]), ops |-> after,
                         log |-> <<LogSpawning>>, files |-> files1]

\* The names of the calls in a trace, and the paths whose existence it checked.
OpNames(ops) == { ops[i].op : i \in 1..Len(ops) }
Checked(ops) == { ops[i].path : i \in { k \in 1..Len(ops) : ops[k].op = "exists" } }

\* The answers a startup never asks for are left at these values.
Unasked ==
    [ external |-> None, isDev |-> FALSE, windows |-> FALSE, resourceDir |-> None,
      appDataDir |-> None, createDir |-> None, candidate |-> FALSE, currentExe |-> None,
      fallback |-> FALSE, devDb |-> FALSE, dbOverride |-> None, spawn |-> None ]

\* An answer record says something only about what this startup asks the platform;
\* once the launcher looks at the filesystem, the project database file and both
\* candidate locations are part of the filesystem it runs on.
Asked(e) ==
    LET ops == SpawnBackend(e, InitialFiles(e)).ops
        names == OpNames(ops)
        checked == Checked(ops)
    IN /\ "app_data_dir" \in names \/ e.appDataDir = Unasked.appDataDir
       /\ "create_dir_all" \in names \/ e.createDir = Unasked.createDir
       /\ "env_db_path" \in names \/ e.dbOverride = Unasked.dbOverride
       /\ "env_db_path" \in names \/ e.devDb = Unasked.devDb
       /\ "resource_dir" \in names \/ e.resourceDir = Unasked.resourceDir
       /\ (IsSome(e.resourceDir)
             /\ Join(Unwrap(e.resourceDir), ExeName(e.windows)) \in checked)
          \/ e.candidate = Unasked.candidate
       /\ (\E i \in 1..Len(ops) : ops[i].op = "exists" /\ ops[i].path # DevDbCandidate)
          \/ e.currentExe = Unasked.currentExe
       /\ IsSome(FallbackOf(e)) \/ e.fallback = Unasked.fallback
       /\ "spawn" \in names \/ e.spawn = Unasked.spawn

\* ------------------------------------------------------------------ registry

\* A take that reads the slot and leaves the child in it.
TakeKeeps(slot) == [ret |-> slot, slot |-> slot]

\* Option::take on the slot: what it returns and what it leaves.
Take(slot) == [ret |-> slot, slot |-> None]

\* A registry whose slot is filled only after the state is managed.
ManageEmpty(reg, child) == IF reg = None THEN Some([slot |-> None]) ELSE reg

\* app.manage(BackendChild(Mutex::new(Some(child)))): state of a type is managed once.
Manage(reg, child) == IF reg = None THEN Some([slot |-> Some(child)]) ELSE reg

\* A kill whose failure leaves the child with the handler, to be killed again.
AfterKillRetry(result, child) == IF result = "Err" THEN Some(child) ELSE None

\* let _ = child.kill(): what the handler holds afterwards, whatever the result.
AfterKill(result, child) == None

\* A setup closure that turns every error into a failure in production.
SetupFailsOnAnyError(isDev, err) == ~isDev

\* A close handler that treats every window as the primary one.
IsAnyWindow(label) == TRUE

\* window.label() == "main"
IsPrimary(label) == label = "main"

\* A setup closure that does not look at the build mode.
SetupFailsInDev(isDev, err) == ~Contains(err, ExternalPattern)

\* The test of the setup closure that turns an error of spawn_backend into
\* an error of setup.
SetupFails(isDev, err) == ~isDev /\ ~Contains(err, ExternalPattern)

\* A run callback that reacts to RunEvent::Exit alone.
IsExitOnly(ev) == ev = "Exit"

\* A run callback that reacts to every run event.
IsAnyEvent(ev) == TRUE

\* matches!(event, RunEvent::Exit | RunEvent::ExitRequested { .. })
IsExitEvent(ev) == ev \in {"Exit", "ExitRequested"}

RunEvents == {"Ready", "ExitRequested", "Exit"}
WindowLabels == {"main", "settings"}

\* ------------------------------------------------------------------ state machine

Init ==
    /\ env \in { e \in Answers : Asked(e) }
    /\ fs = InitialFiles(env)
    /\ spc = "start"
    /\ outcome = None
    /\ setupRet = "none"
    /\ registry = None
    /\ held = None
    /\ host = "Running"
    /\ exitPending = FALSE
    /\ kills = <<>>
    /\ takes = <<>>
    /\ closes = [count |-> 0, main |-> 0, prevented |-> 0, exits |-> 0, tracked |-> FALSE]
    /\ delivered = [count |-> 0, exits |-> 0]
    /\ log = <<>>

Alive == host \notin {"Terminated", "Aborted"}

\* Setup closure, first half: log_sandbox_status(), spawn_backend() and the Err arm.
SetupSpawn ==
    /\ spc = "start"
    /\ Alive
    /\ LET r == SpawnBackend(env, fs) IN
        /\ outcome' = Some(r)
        /\ fs' = r.files
        /\ IF r.res.ok
           THEN /\ spc' = "spawned"
                /\ log' = log \o r.log
                /\ UNCHANGED <<setupRet, host>>
           ELSE /\ spc' = "done"
                /\ log' = log \o r.log \o <<r.res.err>>
                /\ IF SetupFails(env.isDev, r.res.err)
                   THEN setupRet' = "Err" /\ host' = "Aborted"
                   ELSE setupRet' = "Ok" /\ UNCHANGED host
    /\ UNCHANGED <<env, registry, held, exitPending, kills, takes, closes, delivered>>

\* Setup closure, Ok arm: the child is put into managed state and setup returns Ok.
SetupManage ==
    /\ spc = "spawned"
    /\ Alive
    /\ registry' = Manage(registry, Unwrap(outcome).res.val)
    /\ spc' = "done"
    /\ setupRet' = "Ok"
    /\ UNCHANGED <<env, fs, outcome, held, host, exitPending, kills, takes, closes,
                   delivered, log>>

\* on_window_event with WindowEvent::CloseRequested on the window `label`.
CloseRequested(label) ==
    /\ Alive
    /\ held = None
    /\ closes.count < MaxCloses
    /\ IF IsPrimary(label)
       THEN /\ closes' = [count |-> closes.count + 1,
                          main |-> closes.main + (IF label = "main" THEN 1 ELSE 0),
                          prevented |-> closes.prevented + 1,
                          exits |-> closes.exits + 1,
                          tracked |-> closes.tracked
                                      \/ (IsSome(registry) /\ IsSome(Unwrap(registry).slot))]
            /\ exitPending' = TRUE
            /\ host' = IF host = "Running" THEN "ExitRequested" ELSE host
       ELSE /\ closes' = [closes EXCEPT !.count = @ + 1,
                                       !.main = @ + (IF label = "main" THEN 1 ELSE 0)]
            /\ UNCHANGED <<exitPending, host>>
    /\ UNCHANGED <<env, fs, spc, outcome, setupRet, registry, held, kills, takes,
                   delivered, log>>

\* The run callback on the event `ev`, up to and including guard.take().
RunEvent(ev) ==
    /\ Alive
    /\ held = None
    /\ delivered.count < MaxEvents
    /\ delivered' = [count |-> delivered.count + 1,
                     exits |-> delivered.exits + (IF ev = "Ready" THEN 0 ELSE 1)]
    /\ exitPending' = IF ev = "ExitRequested" THEN FALSE ELSE exitPending
    /\ host' = CASE ev = "Exit" -> "Terminating"
                 [] ev = "ExitRequested" /\ host = "Running" -> "ExitRequested"
                 [] OTHER -> host
    /\ IF IsExitEvent(ev) /\ IsSome(registry)
       THEN LET t == Take(Unwrap(registry).slot) IN
            /\ registry' = Some([slot |-> t.slot])
            /\ takes' = Append(takes, t.ret)
            /\ held' = t.ret
       ELSE UNCHANGED <<registry, takes, held>>
    /\ UNCHANGED <<env, fs, spc, outcome, setupRet, kills, closes, log>>

\* The run callback, after a child was taken: let _ = child.kill().
Kill ==
    /\ IsSome(held)
    /\ \E result \in {"Ok", "Err"} :
         /\ kills' = Append(kills, [child |-> Unwrap(held), result |-> result,
                                    after |-> delivered.exits])
         /\ held' = AfterKill(result, Unwrap(held))
    /\ UNCHANGED <<env, fs, spc, outcome, setupRet, registry, host, exitPending, takes,
                   closes, delivered, log>>

\* The event loop has delivered Exit and the process ends.
Terminate ==
    /\ host = "Terminating"
    /\ held = None
    /\ host' = "Terminated"
    /\ UNCHANGED <<env, fs, spc, outcome, setupRet, registry, held, exitPending, kills,
                   takes, closes, delivered, log>>

Next ==
    \/ SetupSpawn
    \/ SetupManage
    \/ \E label \in WindowLabels : CloseRequested(label)
    \/ \E ev \in RunEvents : RunEvent(ev)
    \/ Kill
    \/ Terminate

Spec == Init /\ [][Next]_vars

\* ------------------------------------------------------------------ properties

\* What spawn_backend returned, once the setup closure has called it.
Launched == IsSome(outcome)
Result == Unwrap(outcome).res
Trace == Unwrap(outcome).ops
SpawnedOk == Launched /\ Result.ok

\* The values of TAURI_AGENT_EXTERNAL_BACKEND that mean "an external backend runs".
OverrideSet ==
    { Some(<<"1">>), Some(<<"t","r","u","e">>), Some(<<"T","R","U","E">>),
      Some(<<"T","r","u","E">>) }

\* The registry holds a child.
Tracking == IsSome(registry) /\ IsSome(Unwrap(registry).slot)

\* C1: with a handle installed, a close request on the primary window leads to
\* exactly one kill: no run ever issues a second kill, whatever close requests and
\* exit events follow, and once the exit request made by such a close request has
\* been delivered and handled, exactly one kill has been issued.
C1_CloseKillsExactlyOnce ==
    /\ Len(kills) <= 1
    /\ (closes.tracked /\ ~exitPending /\ held = None) => Len(kills) = 1

\* A close request on the primary window with the handle installed, its kill, and
\* further close requests and exit events after the kill.
C1_Witness ==
    /\ closes.tracked
    /\ closes.count = MaxCloses
    /\ ~exitPending
    /\ delivered.exits >= 3
    /\ Len(kills) = 1
    /\ host = "Terminated"

C3_TakeOnce ==
    /\ \A i \in 1..Len(takes) :
         IF i = 1 THEN SpawnedOk /\ takes[i] = Some(Result.val) ELSE takes[i] = None
    /\ takes # <<>> => registry = Some([slot |-> None])

\* Three take() calls after the install.
C3_Witness == Len(takes) >= 3 /\ IsSome(takes[1])

\* C4: with the external-backend override set no spawn call is issued, no handle
\* is created, the registry holds no handle and no exit event kills anything.
C4_OverrideNoBackend ==
    env.external \in OverrideSet =>
        /\ registry = None
        /\ held = None
        /\ takes = <<>>
        /\ kills = <<>>
        /\ spc # "spawned"
        /\ Launched => (~Result.ok /\ "spawn" \notin OpNames(Trace))

\* A run with the override spelled TRUE that started up, got exit events and ended.
C4_Witness ==
    /\ env.external = Some(<<"T","R","U","E">>)
    /\ Launched
    /\ delivered.exits >= 2
    /\ host = "Terminated"

\* The places a BackendHandle can be in: the setup closure between spawn and
\* install, the registry slot, the exit handler between take and kill.
HandlesInSetup == IF spc = "spawned" THEN 1 ELSE 0
HandlesInRegistry == IF Tracking THEN 1 ELSE 0
HandlesInHandler == IF IsSome(held) THEN 1 ELSE 0
SpawnCalls == IF Launched THEN Cardinality({ i \in 1..Len(Trace) : Trace[i].op = "spawn" }) ELSE 0

\* C5: at most one BackendHandle exists: at most one spawn is issued, and the
\* handle is in at most one of the setup closure, the registry slot and the
\* exit handler.
C5_AtMostOneHandle ==
    /\ SpawnCalls <= 1
    /\ HandlesInSetup + HandlesInRegistry + HandlesInHandler <= 1
    /\ HandlesInSetup + HandlesInRegistry + HandlesInHandler + Len(kills) <= SpawnCalls

\* The exit handler holds the handle it took out of the registry.
C5_Witness == IsSome(held) /\ registry = Some([slot |-> None]) /\ SpawnCalls = 1

\* The startup failed for a reason other than the external-backend outcome.
StartupFailed == Launched /\ ~Result.ok /\ env.external \notin OverrideSet

\* C6: in a production build every startup failure other than the
\* external-backend outcome makes setup return an error and aborts startup,
\* whatever text the error message carries.
C6_ProductionFailureAborts ==
    (StartupFailed /\ ~env.isDev) => (setupRet = "Err" /\ host = "Aborted")

\* C7: in a development build a startup failure is logged, setup returns Ok,
\* no handle is installed and no exit event kills anything.
C7_DevFailureProceeds ==
    (Launched /\ ~Result.ok /\ env.isDev) =>
        /\ setupRet = "Ok"
        /\ host # "Aborted"
        /\ log # <<>> /\ log[Len(log)] = Result.err
        /\ registry = None
        /\ held = None
        /\ takes = <<>>
        /\ kills = <<>>

\* A development run whose backend executable is missing, which went on to
\* receive exit events and ended.
C7_Witness ==
    /\ env.isDev
    /\ StartupFailed
    /\ "exists" \in OpNames(Trace)
    /\ delivered.exits >= 2
    /\ host = "Terminated"

\* C8: when create_dir_all fails, spawn_backend makes no further call (no path
\* resolution, no spawn) and leaves the filesystem as it was, and in a production
\* build setup returns the error and startup is aborted.
C8_CreateDirFailureStops ==
    (Launched /\ IsSome(env.createDir)) =>
        /\ Trace[Len(Trace)].op = "create_dir_all"
        /\ OpNames(Trace) \cap {"env_db_path", "resource_dir", "exists", "current_exe", "spawn"} = {}
        /\ Result = Err(MsgCreateDir(Unwrap(env.createDir)))
        /\ fs = InitialFiles(env)
        /\ spc = "done" /\ registry = None
        /\ ~env.isDev => (setupRet = "Err" /\ host = "Aborted")

\* A production startup whose create_dir_all was refused.
C8_Witness ==
    /\ Launched
    /\ ~env.isDev
    /\ env.createDir = Some(Spaced(<<"Permission", "denied", "(os", "error", "13)">>))
    /\ "create_dir_all" \in OpNames(Trace)
    /\ host = "Aborted"

\* C9 as stated: the stages come in the order close requested on the primary
\* window, exit requested, exit event delivered, kill, terminated, so that each
\* stage has every earlier one behind it.
C9_CloseRequestFirst ==
    /\ kills # <<>> => (delivered.exits >= 1 /\ closes.exits >= 1)
    /\ host = "Terminated" => (delivered.exits >= 1 /\ closes.exits >= 1)

\* C9 amended: a kill is issued only by the run callback on an exit event and
\* never by the close-request handler; the handle is taken only in a step that
\* delivers Exit or ExitRequested, no kill precedes the first exit event, a
\* close request changes neither registry nor kills, and the host terminates
\* only after an exit event, with no kill after it. An exit event needs no close
\* request before it.
C9_KillOnlyOnExitEvent ==
    [][ /\ kills' # kills =>
             (IsSome(held) /\ delivered.exits >= 1 /\ closes' = closes
              /\ delivered' = delivered /\ host # "Terminated")
        /\ (held' # held /\ IsSome(held')) =>
             (delivered'.exits = delivered.exits + 1 /\ closes' = closes)
        /\ closes' # closes =>
             (kills' = kills /\ held' = held /\ registry' = registry /\ takes' = takes)
        /\ (host' = "Terminated" /\ host # "Terminated") =>
             (delivered.exits >= 1 /\ held = None)
        /\ host = "Terminated" => kills' = kills
      ]_vars

\* A close request on the primary window with the handle tracked, then the exit
\* events, the kill and the end of the host.
C9_Witness ==
    /\ closes.tracked
    /\ delivered.exits >= 2
    /\ Len(kills) = 1 /\ kills[1].after >= 1
    /\ host = "Terminated"

\* The resolver ran on a filesystem that holds the packaged-resource candidate.
CandidatePath == Join(Unwrap(env.resourceDir), ExeName(env.windows))
ResolvedWithCandidate ==
    /\ Launched
    /\ "resource_dir" \in OpNames(Trace)
    /\ IsSome(env.resourceDir)
    /\ CandidatePath \in InitialFiles(env)

\* C10: whenever a file exists at resource_dir/exe_name the resolver returns
\* exactly that path, whether or not the fallback exists, and neither asks for
\* the host's own executable nor checks any other path.
C10_CandidateWins ==
    ResolvedWithCandidate =>
        /\ \E i \in 1..Len(Trace) : Trace[i] = Op("spawn", CandidatePath)
        /\ "current_exe" \notin OpNames(Trace)
        /\ Checked(Trace) \subseteq {CandidatePath, DevDbCandidate}

\* Both candidate files exist and the resolver has run.
C10_Witness ==
    /\ ResolvedWithCandidate
    /\ IsSome(FallbackOf(env))
    /\ Unwrap(FallbackOf(env)) \in InitialFiles(env)
    /\ Unwrap(FallbackOf(env)) # CandidatePath

\* The resolver reached its existence checks, on the files present at that time.
ResolverRan == Launched /\ IsSome(env.resourceDir) /\ CandidatePath \in Checked(Trace)
FilesAtResolution == InitialFiles(env) \cup Ancestors(Unwrap(env.appDataDir))
FallbackPath == Unwrap(FallbackOf(env))
FallbackPresent == IsSome(FallbackOf(env)) /\ FallbackPath \in FilesAtResolution
\* The path the resolver returned, which is the program handed to spawn.
Resolved == { Trace[i].path : i \in { k \in 1..Len(Trace) : Trace[k].op = "spawn" } }

\* C11: when the packaged-resource candidate does not exist and a file exists at
\* parent_dir(current_executable)/exe_name, the resolver returns that fallback.
C11_FallbackUsed ==
    (ResolverRan /\ CandidatePath \notin FilesAtResolution /\ FallbackPresent) =>
        Resolved = {FallbackPath}

\* The resolver ran with only the fallback present, and the backend was spawned from it.
C11_Witness ==
    /\ ResolverRan
    /\ CandidatePath \notin FilesAtResolution
    /\ FallbackPresent
    /\ SpawnedOk
    /\ Result.val.command.program = FallbackPath

\* C12: when neither candidate exists, also when the host executable or its
\* parent directory is unknown, the resolver fails with the not-found error that
\* names the packaged-resource candidate and not the fallback.
C12_NotFoundNamesCandidate ==
    (ResolverRan /\ CandidatePath \notin FilesAtResolution /\ ~FallbackPresent) =>
        /\ Resolved = {}
        /\ ~Result.ok
        /\ Result.err = MsgNotFound(CandidatePath)
        /\ IsSome(FallbackOf(env)) => ~Contains(Result.err, FallbackPath)

\* Neither file exists although the fallback location is known and was checked.
C12_Witness ==
    /\ ResolverRan
    /\ CandidatePath \notin FilesAtResolution
    /\ IsSome(FallbackOf(env))
    /\ FallbackPath \in Checked(Trace)
    /\ ~Result.ok

\* The resolver failed with the host executable's parent directory unknown.
C12_WitnessNoParent ==
    /\ ResolverRan
    /\ env.currentExe = Some(<<"/">>)
    /\ ~Result.ok

\* C13: every path the resolver returns is the candidate or the fallback, its
\* existence was checked, and the file existed when it was checked.
C13_ResolvedExists ==
    Launched =>
        \A p \in Resolved :
            /\ p = CandidatePath \/ (IsSome(FallbackOf(env)) /\ p = FallbackPath)
            /\ p \in Checked(Trace)
            /\ p \in FilesAtResolution

\* The resolver returned the fallback after checking the candidate and the fallback.
C13_Witness ==
    /\ Launched
    /\ Resolved # {}
    /\ Resolved # {CandidatePath}
    /\ Cardinality(Checked(Trace) \ {DevDbCandidate}) = 2

\* The database path handed to the child in TAURI_AGENT_DB_PATH.
ChildDbPath == Result.val.command.envs.TAURI_AGENT_DB_PATH

C14_WitnessProduction ==
    /\ SpawnedOk
    /\ ~env.isDev /\ env.devDb /\ env.dbOverride = None
    /\ ChildDbPath = <<"/", "home", "/", "data", "/", "chat_app.db">>

\* C15: with the override set the launcher reads the override and nothing else,
\* returns the external-backend outcome, leaves filesystem and registry as they
\* were, and setup returns Ok in production and development builds alike.
C15_OverrideFirst ==
    (Launched /\ env.external \in OverrideSet) =>
        /\ Trace = <<Op("env_external", NoPath)>>
        /\ Result = Err(MsgExternal)
        /\ fs = InitialFiles(env)
        /\ registry = None
        /\ setupRet = "Ok"
        /\ host # "Aborted"

\* A production startup with the override set to 1 that went on to exit.
C15_Witness ==
    /\ Launched
    /\ env.external = Some(<<"1">>)
    /\ ~env.isDev
    /\ host = "Terminated"

\* What the exit handler can find in managed state: nothing, the slot holding
\* the child spawn_backend returned, or the slot emptied by a take.
RegistryWhole ==
    IsSome(registry) =>
        /\ spc = "done"
        /\ SpawnedOk
        /\ Unwrap(registry).slot = IF takes = <<>> THEN Some(Result.val) ELSE None
        /\ \A i \in 1..Len(takes) : takes[i] \in {None, Some(Result.val)}
        /\ held \in {None, Some(Result.val)}

\* C16: under every interleaving of the startup routine with exit events the
\* exit handler sees the registry absent, empty or holding the fully spawned
\* child, never a half-installed one, and no step both installs into and takes
\* from the slot.
C16_NoHalfInstalledHandle ==
    /\ []RegistryWhole
    /\ [][ registry' # registry =>
             \/ (registry = None /\ spc = "spawned" /\ spc' = "done"
                 /\ takes' = takes /\ held' = held /\ delivered' = delivered)
             \/ (IsSome(registry) /\ spc' = spc /\ Len(takes') = Len(takes) + 1
                 /\ delivered'.exits = delivered.exits + 1)
         ]_vars

\* An exit event found the registry absent while the child was already spawned,
\* and a later exit event took the installed child.
C16_Witness ==
    /\ delivered.exits >= 2
    /\ Len(takes) = 1
    /\ IsSome(takes[1])
    /\ Len(kills) = 1 /\ kills[1].after >= 2

\* C17: every close request on the window "main" prevents the default close and
\* requests application exit; a close request on another window does neither
\* and changes nothing the exit handler acts on.
C17_OnlyPrimaryCloseExits ==
    /\ [](closes.prevented = closes.main /\ closes.exits = closes.main)
    /\ [][ closes'.count # closes.count =>
             /\ kills' = kills /\ held' = held /\ registry' = registry /\ takes' = takes
             /\ IF closes'.main # closes.main
                THEN /\ closes'.prevented = closes.prevented + 1
                     /\ closes'.exits = closes.exits + 1
                     /\ exitPending'
                     /\ host' # "Running"
                ELSE /\ closes'.prevented = closes.prevented
                     /\ closes'.exits = closes.exits
                     /\ exitPending' = exitPending
                     /\ host' = host
         ]_vars

\* One close request on "main" and one on another window.
C17_Witness ==
    /\ closes.count = 2
    /\ closes.main = 1
    /\ closes.prevented = 1
    /\ exitPending

\* C18: a kill is final whatever it returns: one kill and no retry, the handler
\* holds nothing afterwards, the slot is empty, nothing is logged or returned
\* as an error, and the host can still terminate.
C18_KillFailureSwallowed ==
    kills # <<>> =>
        /\ Len(kills) = 1
        /\ held = None
        /\ registry = Some([slot |-> None])
        /\ log = Unwrap(outcome).log
        /\ setupRet # "Err"
        /\ host # "Aborted"
        /\ host = "Terminating" => ENABLED Terminate

\* The kill failed and the host terminated.
C18_Witness ==
    /\ Len(kills) = 1
    /\ kills[1].result = "Err"
    /\ host = "Terminated"

\* C19: once a take has emptied the slot it stays empty; a handle enters the
\* registry only in the install step of the setup closure, spawn_backend runs
\* once, and no window or run event spawns or installs anything.
C19_NoRespawn ==
    [][ /\ takes # <<>> => (registry = Some([slot |-> None]) /\ registry' = registry)
        /\ (Tracking' /\ ~Tracking) =>
             (registry = None /\ spc = "spawned" /\ spc' = "done")
        /\ Launched => outcome' = outcome
        /\ (delivered' # delivered \/ closes' # closes \/ kills' # kills) =>
             (outcome' = outcome /\ spc' = spc /\ fs' = fs /\ (Tracking' => Tracking))
      ]_vars

\* After the take emptied the slot, further exit events and close requests came.
C19_Witness ==
    /\ Len(takes) >= 2
    /\ closes.count >= 1
    /\ registry = Some([slot |-> None])

\* Position of the first call named `name` in a trace, 0 if there is none.
FirstOp(ops, name) ==
    IF name \in OpNames(ops)
    THEN CHOOSE i \in 1..Len(ops) : ops[i].op = name /\ \A j \in 1..(i - 1) : ops[j].op # name
    ELSE 0

\* C20: without the override the app data directory is created before the
\* backend path is resolved; a startup failing in the resolver or in spawn has
\* created the directory and done nothing else: the filesystem differs by that
\* directory only, no child exists and no handle is installed.
C20_DirCreatedBeforeResolve ==
    (Launched /\ "resource_dir" \in OpNames(Trace)) =>
        /\ 0 < FirstOp(Trace, "create_dir_all")
        /\ FirstOp(Trace, "create_dir_all") < FirstOp(Trace, "resource_dir")
        /\ Unwrap(env.appDataDir) \in fs
        /\ ~Result.ok =>
             /\ fs = InitialFiles(env) \cup Ancestors(Unwrap(env.appDataDir))
             /\ spc = "done"
             /\ registry = None
             /\ held = None
             /\ kills = <<>>

\* A startup that failed in spawn, and one that failed with not-found.
C20_Witness ==
    /\ Launched
    /\ ~Result.ok
    /\ "spawn" \in OpNames(Trace)
    /\ Unwrap(env.appDataDir) \in fs

C20_WitnessNotFound ==
    /\ Launched
    /\ ~Result.ok
    /\ IsSome(env.resourceDir)
    /\ "exists" \in OpNames(Trace)
    /\ "spawn" \notin OpNames(Trace)
    /\ Unwrap(env.appDataDir) \in fs

====
